---- MODULE Spec2Model ----
(***************************************************************************)
(* A model of the Pac-Man game: the maze (maze.py), the actors' movement   *)
(* (actors.py) and the game controller's state machine (game.py).          *)
(*                                                                         *)
(* Lengths are integers in units of 1/Scale pixel and elapsed times are    *)
(* integers in units of 1/Scale second, so that speed * dt (pixels) is the *)
(* integer speed * k (units) for dt = k / Scale.  Scale is a power of two: *)
(* every position the model reaches is a dyadic rational that Python's     *)
(* floats hold exactly, so the float arithmetic of the source (+, *, //,   *)
(* %, <) is the integer arithmetic written here.                           *)
(***************************************************************************)
EXTENDS Integers, Sequences, FiniteSets, TLC

\* ------------------------------------------------------------ constants.py
Scale == 64

TILE_SIZE == 20

GRID_WIDTH == 28

TileU == TILE_SIZE * Scale

SCREEN_WIDTH == GRID_WIDTH * TILE_SIZE

ScreenWidthU == SCREEN_WIDTH * Scale

MAZE_LAYOUT ==
  <<
    <<"#","#","#","#","#","#","#","#","#","#","#","#","#","#","#","#","#","#","#","#","#","#","#","#","#","#","#","#">>,
    <<"#",".",".",".",".",".",".",".",".",".",".",".",".","#","#",".",".",".",".",".",".",".",".",".",".",".",".","#">>,
    <<"#",".","#","#","#","#",".","#","#","#","#","#",".","#","#",".","#","#","#","#","#",".","#","#","#","#",".","#">>,
    <<"#","o","#","#","#","#",".","#","#","#","#","#",".","#","#",".","#","#","#","#","#",".","#","#","#","#","o","#">>,
    <<"#",".","#","#","#","#",".","#","#","#","#","#",".","#","#",".","#","#","#","#","#",".","#","#","#","#",".","#">>,
    <<"#",".",".",".",".",".",".",".",".",".",".",".",".",".",".",".",".",".",".",".",".",".",".",".",".",".",".","#">>,
    <<"#",".","#","#","#","#",".","#","#",".","#","#","#","#","#","#","#","#",".","#","#",".","#","#","#","#",".","#">>,
    <<"#",".","#","#","#","#",".","#","#",".","#","#","#","#","#","#","#","#",".","#","#",".","#","#","#","#",".","#">>,
    <<"#",".",".",".",".",".",".","#","#",".",".",".",".","#","#",".",".",".",".","#","#",".",".",".",".",".",".","#">>,
    <<"#","#","#","#","#","#",".","#","#","#","#","#"," ","#","#"," ","#","#","#","#","#",".","#","#","#","#","#","#">>,
    <<" "," "," "," "," ","#",".","#","#","#","#","#"," ","#","#"," ","#","#","#","#","#",".","#"," "," "," "," "," ">>,
    <<" "," "," "," "," ","#",".","#","#"," "," "," "," "," "," "," "," "," "," ","#","#",".","#"," "," "," "," "," ">>,
    <<" "," "," "," "," ","#",".","#","#"," ","#","#","#","-","-","#","#","#"," ","#","#",".","#"," "," "," "," "," ">>,
    <<"#","#","#","#","#","#",".","#","#"," ","#"," "," "," "," "," "," ","#"," ","#","#",".","#","#","#","#","#","#">>,
    <<" "," "," "," "," "," ","."," "," "," ","#"," ","G","G","G","G"," ","#"," "," "," ","."," "," "," "," "," "," ">>,
    <<"#","#","#","#","#","#",".","#","#"," ","#"," "," "," "," "," "," ","#"," ","#","#",".","#","#","#","#","#","#">>,
    <<" "," "," "," "," ","#",".","#","#"," ","#","#","#","#","#","#","#","#"," ","#","#",".","#"," "," "," "," "," ">>,
    <<" "," "," "," "," ","#",".","#","#"," "," "," "," "," "," "," "," "," "," ","#","#",".","#"," "," "," "," "," ">>,
    <<" "," "," "," "," ","#",".","#","#"," ","#","#","#","#","#","#","#","#"," ","#","#",".","#"," "," "," "," "," ">>,
    <<"#","#","#","#","#","#",".","#","#"," ","#","#","#","#","#","#","#","#"," ","#","#",".","#","#","#","#","#","#">>,
    <<"#",".",".",".",".",".",".",".",".",".",".",".",".","#","#",".",".",".",".",".",".",".",".",".",".",".",".","#">>,
    <<"#",".","#","#","#","#",".","#","#","#","#","#",".","#","#",".","#","#","#","#","#",".","#","#","#","#",".","#">>,
    <<"#","o",".",".","#","#",".",".",".",".",".",".",".","P",".",".",".",".",".",".",".","#","#",".",".","o",".","#">>,
    <<"#","#","#",".","#","#",".","#","#",".","#","#","#","#","#","#","#","#",".","#","#",".","#","#",".","#","#","#">>,
    <<"#",".",".",".",".",".",".","#","#",".",".",".",".","#","#",".",".",".",".","#","#",".",".",".",".",".",".","#">>,
    <<"#",".","#","#","#","#","#","#","#","#","#","#",".","#","#",".","#","#","#","#","#","#","#","#","#","#",".","#">>,
    <<"#",".",".",".",".",".",".",".",".",".",".",".",".",".",".",".",".",".",".",".",".",".",".",".",".",".",".","#">>,
    <<"#","#","#","#","#","#","#","#","#","#","#","#","#","#","#","#","#","#","#","#","#","#","#","#","#","#","#","#">>
  >>

\* ------------------------------------------------------------ model bounds
\* Elapsed times of a frame, in 1/Scale second.
DtSet == {19, 89}

\* Simulation ticks modelled per game.
MaxTicks == 2

\* Keys held at once.
MaxHeld == 1

\* random.choice(seq) returns seq[i] for an index i < MaxDraw.
MaxDraw == 2

Keys == {"Left", "Right", "Up", "Down", "Return", "space", "Escape"}

\* The outcomes of random.choice(seq) the model draws.
Draws(seq) == {seq[i] : i \in 1 .. (IF Len(seq) < MaxDraw THEN Len(seq) ELSE MaxDraw)}


\* ---------------------------------------------------------------- vector.py
Vec(x, y) == <<x, y>>

VAdd(a, b) == <<a[1] + b[1], a[2] + b[2]>>

VScale(a, s) == <<a[1] * s, a[2] * s>>

IsZero(v) == v[1] = 0 /\ v[2] = 0

\* distance_to(a, b) < limit, for limit >= 0, as a comparison of squares:
\* math.hypot is monotone and exact enough on the model's dyadic grid.
DistanceLess(a, b, limit) ==
  LET dx == a[1] - b[1]
      dy == a[2] - b[2]
  IN  dx * dx + dy * dy < limit * limit

\* Optional[Vector]: None is the empty tuple.
None == <<>>

\* ------------------------------------------------------------------ maze.py
Width == Len(MAZE_LAYOUT[1])

Height == Len(MAZE_LAYOUT)

Tiles == {<<c, r>> : c \in 0 .. Width - 1, r \in 0 .. Height - 1}

Cell(t) == MAZE_LAYOUT[t[2] + 1][t[1] + 1]

\* PelletSet.from_layout: the template built once by Maze.__init__.
TemplatePellets == {t \in Tiles : Cell(t) = "."}

TemplatePower == {t \in Tiles : Cell(t) = "o"}

\* Row-major order of tiles, as the nested enumerate loops visit them.
RowMajor(t) == t[2] * Width + t[1]

FindCharacters(ch) ==
  LET S == {t \in Tiles : Cell(t) = ch}
      Rank(t) == Cardinality({u \in S : RowMajor(u) < RowMajor(t)})
  IN  [i \in 1 .. Cardinality(S) |-> CHOOSE t \in S : Rank(t) = i - 1]

FindCharacter(ch) ==
  LET all == FindCharacters(ch)
  IN  IF Len(all) = 0 THEN None ELSE all[1]

PlayerStart == FindCharacter("P")

GhostStarts ==
  IF Len(FindCharacters("G")) # 0 THEN FindCharacters("G") ELSE <<PlayerStart>>

NGhosts == Len(GhostStarts)

TileToPixelCenter(t) ==
  <<(t[1] * TILE_SIZE + TILE_SIZE \div 2) * Scale,
    (t[2] * TILE_SIZE + TILE_SIZE \div 2) * Scale>>

PixelToTile(p) == <<p[1] \div TileU, p[2] \div TileU>>

IsWall(t) ==
  IF t[1] < 0 \/ t[2] < 0 \/ t[1] >= Width \/ t[2] >= Height
  THEN TRUE
  ELSE Cell(t) = "#"

\* Mutant: a position left of the screen is put on the right edge itself.
WrapPosition_OnEdge(p) ==
  IF p[1] < 0 THEN <<ScreenWidthU, p[2]>>
  ELSE IF p[1] >= ScreenWidthU THEN <<TileU \div 2, p[2]>>
  ELSE p

WrapPosition(p) ==
  IF p[1] < 0 THEN <<ScreenWidthU - TileU \div 2, p[2]>>
  ELSE IF p[1] >= ScreenWidthU THEN <<TileU \div 2, p[2]>>
  ELSE p

DIRECTIONS == <<Vec(1, 0), Vec(-1, 0), Vec(0, 1), Vec(0, -1)>>

DirSet == {DIRECTIONS[i] : i \in 1 .. Len(DIRECTIONS)}

AvailableDirections(t) ==
  SelectSeq(DIRECTIONS, LAMBDA d : ~IsWall(VAdd(t, d)))

CollidesWithWall(p, radius) ==
  \E off \in {Vec(-radius, -radius), Vec(radius, -radius),
              Vec(-radius, radius), Vec(radius, radius)} :
    IsWall(PixelToTile(VAdd(p, off)))

\* ---------------------------------------------------------------- actors.py
ACTOR_RADIUS == 8

PLAYER_SPEED == 120

ALIGN_EPSILON == 1

AlignedWithGrid(a) ==
  /\ (a.position[1] - TileU \div 2) % TileU < ALIGN_EPSILON * Scale
  /\ (a.position[2] - TileU \div 2) % TileU < ALIGN_EPSILON * Scale

\* Mutant: a turn is committed wherever the actor is, aligned or not.
TryChangeDirection_Anywhere(a) ==
  IF a.next_direction = a.direction
  THEN [a EXCEPT !.next_direction = None]
  ELSE IF IsWall(VAdd(PixelToTile(a.position), a.next_direction)) THEN a
  ELSE [a EXCEPT !.direction = a.next_direction, !.next_direction = None]

TryChangeDirection(a) ==
  IF a.next_direction = a.direction
  THEN [a EXCEPT !.next_direction = None]
  ELSE IF ~AlignedWithGrid(a) THEN a
  ELSE IF IsWall(VAdd(PixelToTile(a.position), a.next_direction)) THEN a
  ELSE [a EXCEPT !.direction = a.next_direction, !.next_direction = None]

\* Mutant: an actor stopped by a wall stays where it was, off the center.
StopAtWall_InPlace(a) == [a EXCEPT !.direction = Vec(0, 0)]

StopAtWall(a) ==
  [a EXCEPT !.position = TileToPixelCenter(PixelToTile(a.position)),
            !.direction = Vec(0, 0)]

\* Mutant: the candidate position is taken without the wall test.
ActorUpdate_NoWallTest(a, k) ==
  LET a1 == IF a.next_direction # None THEN TryChangeDirection(a) ELSE a
      new_position == VAdd(a1.position, VScale(a1.direction, a1.speed * k))
  IN  [a1 EXCEPT !.position = WrapPosition(new_position)]

\* Actor.update with dt = k / Scale seconds; radius in pixels.
ActorUpdate(a, k) ==
  LET a1 == IF a.next_direction # None THEN TryChangeDirection(a) ELSE a
      new_position == VAdd(a1.position, VScale(a1.direction, a1.speed * k))
      a2 == IF ~CollidesWithWall(new_position, a1.radius * Scale)
            THEN [a1 EXCEPT !.position = new_position]
            ELSE StopAtWall(a1)
  IN  [a2 EXCEPT !.position = WrapPosition(a2.position)]

NewPlayer(position) ==
  [position |-> position, speed |-> PLAYER_SPEED, radius |-> ACTOR_RADIUS,
   direction |-> Vec(-1, 0), next_direction |-> None,
   orientation |-> Vec(-1, 0)]

DirectionMap ==
  <<[key |-> "Left", dir |-> Vec(-1, 0)], [key |-> "Right", dir |-> Vec(1, 0)],
    [key |-> "Up", dir |-> Vec(0, -1)], [key |-> "Down", dir |-> Vec(0, 1)]>>

HandleInput(p, pressed) ==
  LET hits == SelectSeq(DirectionMap, LAMBDA e : e.key \in pressed)
  IN  IF Len(hits) = 0 THEN p ELSE [p EXCEPT !.next_direction = hits[1].dir]

\* Player.update (the mouth animation phase is drawing state and is left out).
PlayerUpdate(p, k) ==
  LET a == ActorUpdate(p, k)
  IN  IF ~IsZero(a.direction) THEN [a EXCEPT !.orientation = a.direction] ELSE a

NewGhost(position, speed, direction) ==
  [position |-> position, speed |-> speed, radius |-> ACTOR_RADIUS,
   direction |-> direction, next_direction |-> None]

Opposite(d) == Vec(-d[1], -d[2])

\* Mutant: the reverse of the current direction is a candidate like any other.
ChooseCandidates_WithReverse(g, tile_pos) ==
  LET available == AvailableDirections(tile_pos)
  IN  IF Len(available) # 0 THEN available
      ELSE <<Opposite(g.direction)>>

\* Ghost._choose_direction: the list random.choice draws from, or the
\* reverse alone when no direction is available.
ChooseCandidates(g, tile_pos) ==
  LET available == AvailableDirections(tile_pos)
      candidates == SelectSeq(available, LAMBDA d : d # Opposite(g.direction))
  IN  IF Len(candidates) # 0 THEN candidates
      ELSE IF Len(available) # 0 THEN available
      ELSE <<Opposite(g.direction)>>

ChoiceSet(g) == Draws(ChooseCandidates(g, PixelToTile(g.position)))

\* Mutant: the direction is drawn on every tick, aligned or not.
GhostUpdate_Anywhere(g, k, pick) ==
  ActorUpdate([g EXCEPT !.direction = pick], k)

\* Ghost.update, with `pick` the outcome of random.choice when it is drawn.
GhostUpdate(g, k, pick) ==
  LET g1 == IF AlignedWithGrid(g) THEN [g EXCEPT !.direction = pick] ELSE g
  IN  ActorUpdate(g1, k)

\* The picks random.choice can return for g; a ghost that draws nothing
\* has the single dummy pick of its own direction.
Picks(g) == IF AlignedWithGrid(g) THEN ChoiceSet(g) ELSE {g.direction}

\* -------------------------------------------------------------------- state
VARIABLES
  state,            \* Game.state: "Menu", "Playing" or "GameOver"
  score,            \* Game.score
  level,            \* Game.level
  lives,            \* Game.lives
  running,          \* Game.running
  pressed_keys,     \* Game.pressed_keys
  pellets,          \* Maze.pellets: the current PelletSet
  pellet_template,  \* Maze.pellet_template
  player,           \* Game.player
  ghosts,           \* Game.ghosts
  ticks,            \* simulation ticks run since the game began (bounds the model)
  last              \* history: the last operation, its input, the state it ran in and,
                    \* for a simulated frame, whether a ghost overlapped the moved
                    \* player and how many ghosts did

vars ==
  <<state, score, level, lives, running, pressed_keys, pellets,
    pellet_template, player, ghosts, ticks, last>>

\* Mutant: a copy leaves the power pellets behind.
CopyPelletSet_DropsPower(ps) ==
  [pellets |-> ps.pellets, power_pellets |-> {}]

\* PelletSet.copy: fresh sets with the same members.
CopyPelletSet(ps) ==
  [pellets |-> ps.pellets, power_pellets |-> ps.power_pellets]

PELLET_SCORE == 10

POWER_SCORE == 50

\* Mutant: a collected pellet scores but stays in its set.
CollectPellet_Keeps(ps, tile_pos) ==
  IF tile_pos \in ps.pellets THEN [gain |-> PELLET_SCORE, set |-> ps]
  ELSE IF tile_pos \in ps.power_pellets THEN [gain |-> POWER_SCORE, set |-> ps]
  ELSE [gain |-> 0, set |-> ps]

\* Maze.collect_pellet: the returned score and the PelletSet afterwards.
CollectPellet(ps, tile_pos) ==
  IF tile_pos \in ps.pellets
  THEN [gain |-> PELLET_SCORE,
        set |-> [ps EXCEPT !.pellets = ps.pellets \ {tile_pos}]]
  ELSE IF tile_pos \in ps.power_pellets
  THEN [gain |-> POWER_SCORE,
        set |-> [ps EXCEPT !.power_pellets = ps.power_pellets \ {tile_pos}]]
  ELSE [gain |-> 0, set |-> ps]

RemainingPellets(ps) == Cardinality(ps.pellets) + Cardinality(ps.power_pellets)

\* ------------------------------------------------------------------ game.py
GHOST_BASE_SPEED == 90

GHOST_SPEED_STEP == 10

COLLIDE_TOLERANCE == 2

INITIAL_LIVES == 3

\* Game._create_entities; dirs[i] is the random.choice of Ghost.__init__.
CreatePlayer == NewPlayer(TileToPixelCenter(PlayerStart))

\* Mutant: every level's ghosts get the base speed.
CreateGhosts_BaseSpeed(lvl, dirs) ==
  [i \in 1 .. NGhosts |->
     NewGhost(TileToPixelCenter(GhostStarts[i]), GHOST_BASE_SPEED, dirs[i])]

CreateGhosts(lvl, dirs) ==
  [i \in 1 .. NGhosts |->
     NewGhost(TileToPixelCenter(GhostStarts[i]),
              GHOST_BASE_SPEED + (lvl - 1) * GHOST_SPEED_STEP, dirs[i])]

\* Game.reset_positions
ResetPlayer(p) ==
  [p EXCEPT !.position = TileToPixelCenter(PlayerStart),
            !.direction = Vec(-1, 0), !.next_direction = None]

ResetGhosts(gs) ==
  [i \in 1 .. Len(gs) |->
     IF i <= NGhosts
     THEN [gs[i] EXCEPT !.position = TileToPixelCenter(GhostStarts[i]),
                        !.direction = Vec(1, 0), !.next_direction = None]
     ELSE gs[i]]

\* Mutant: actors whose centers are exactly radius + radius - 2 apart collide.
Collides_Inclusive(a, b) ==
  LET limit == (a.radius + b.radius - COLLIDE_TOLERANCE) * Scale
      dx == a.position[1] - b.position[1]
      dy == a.position[2] - b.position[2]
  IN  dx * dx + dy * dy <= limit * limit

\* Game._collides
Collides(a, b) ==
  DistanceLess(a.position, b.position,
               (a.radius + b.radius - COLLIDE_TOLERANCE) * Scale)

GhostDirs == [1 .. NGhosts -> DirSet]

\* Ghost.__init__: random.choice(DIRECTIONS), once per ghost.
InitialDirs == {dirs \in GhostDirs : \A i \in 1 .. NGhosts : dirs[i] \in Draws(DIRECTIONS)}

\* The state Game.__init__ leaves: the menu, with the entities created.
InitConstructed ==
  /\ state = "Menu"
  /\ score = 0
  /\ level = 1
  /\ lives = INITIAL_LIVES
  /\ running = TRUE
  /\ pressed_keys = {}
  /\ pellet_template = [pellets |-> TemplatePellets, power_pellets |-> TemplatePower]
  /\ pellets = CopyPelletSet(pellet_template)
  /\ player = CreatePlayer
  /\ \E dirs \in InitialDirs : ghosts = CreateGhosts(1, dirs)
  /\ ticks = 0
  /\ last = [op |-> "init", arg |-> None, from |-> "none", overlap |-> FALSE, hits |-> 0]

\* The value of every pellet of the layout.
TotalScore ==
  PELLET_SCORE * Cardinality(TemplatePellets) + POWER_SCORE * Cardinality(TemplatePower)

\* The plain pellets left in a late game: the tile two to the right of the
\* player's start, alone or with its right neighbour.
LateSets == {{<<15, 22>>}, {<<15, 22>>, <<16, 22>>}}

\* A game in progress: level 1, every pellet eaten but those of one of the
\* LateSets, and the player just caught with one life left, so that
\* reset_positions has put the actors back on their start tiles.  Play gets
\* here: with frames of 1/128 s the player walks every corridor but the
\* tiles of the LateSet, turning at tile centers, while the ghosts' draws
\* keep them circling in the ghost house; it then stops at the left end of
\* row 22, facing left, and is caught there twice.
InitLateGame ==
  /\ state = "Playing"
  /\ level = 1
  /\ lives = 1
  /\ running = TRUE
  /\ pressed_keys = {}
  /\ pellet_template = [pellets |-> TemplatePellets, power_pellets |-> TemplatePower]
  /\ \E left \in LateSets :
       /\ pellets = [pellets |-> left, power_pellets |-> {}]
       /\ score = TotalScore - PELLET_SCORE * Cardinality(left)
  /\ player = ResetPlayer(CreatePlayer)
  /\ ghosts = ResetGhosts(CreateGhosts(1, [i \in 1 .. NGhosts |-> Vec(1, 0)]))
  /\ ticks = 0
  /\ last = [op |-> "init", arg |-> None, from |-> "none", overlap |-> FALSE, hits |-> 0]

\* The plain pellets eaten on the way to the crowded state below.
CrowdedEaten ==
  {<<6, 20>>, <<6, 21>>, <<6, 22>>, <<7, 20>>, <<7, 22>>, <<8, 20>>,
   <<8, 22>>, <<9, 20>>, <<9, 22>>, <<11, 22>>, <<12, 22>>}

\* A game in progress: the player stands at the wall above tile (9,11),
\* where it stopped heading up, and two ghosts at one and the same position
\* come along row 11 towards it; the other two circle in the ghost house.
\* Play gets here: after a first frame of 15/64 s, frames of 1/128 s run the
\* fourth ghost into the house wall, where it stops on the center of tile
\* (16,14); a frame of 1/4 s then stops the third ghost on the same center;
\* from there the two draw the same directions.  Meanwhile the player runs
\* left along row 22 and walks by column 6, row 20 and column 9 to (9,11).
InitCrowded ==
  /\ state = "Playing"
  /\ level = 1
  /\ lives = INITIAL_LIVES
  /\ running = TRUE
  /\ pressed_keys = {}
  /\ pellet_template = [pellets |-> TemplatePellets, power_pellets |-> TemplatePower]
  /\ pellets = [pellets |-> TemplatePellets \ CrowdedEaten, power_pellets |-> TemplatePower]
  /\ score = PELLET_SCORE * Cardinality(CrowdedEaten)
  /\ player = [NewPlayer(TileToPixelCenter(<<9, 11>>)) EXCEPT
                 !.direction = Vec(0, 0), !.orientation = Vec(0, -1)]
  /\ ghosts = <<NewGhost(<<15640, 19865>>, GHOST_BASE_SPEED, Vec(1, 0)),
                NewGhost(<<16920, 19865>>, GHOST_BASE_SPEED, Vec(1, 0)),
                NewGhost(<<14550, 14780>>, GHOST_BASE_SPEED, Vec(-1, 0)),
                NewGhost(<<14550, 14780>>, GHOST_BASE_SPEED, Vec(-1, 0))>>
  /\ ticks = 0
  /\ last = [op |-> "init", arg |-> None, from |-> "none", overlap |-> FALSE, hits |-> 0]

\* The plain pellets eaten on the way to the state below.
PowerEaten ==
  {<<x, 22>> : x \in 6 .. 12} \cup {<<6, 21>>} \cup {<<x, 20>> : x \in 1 .. 6}

\* A game in progress: the player has just turned down at tile (1,20), two
\* tiles above the power pellet of tile (1,22); the ghosts circle in the
\* ghost house.  Play gets here with frames of 1/128 s: the player runs left
\* along row 22, walks by column 6 and row 20 to (1,20), and Down is held
\* for one frame there.
InitPower ==
  /\ state = "Playing"
  /\ level = 1
  /\ lives = INITIAL_LIVES
  /\ running = TRUE
  /\ pressed_keys = {}
  /\ pellet_template = [pellets |-> TemplatePellets, power_pellets |-> TemplatePower]
  /\ pellets = [pellets |-> TemplatePellets \ PowerEaten, power_pellets |-> TemplatePower]
  /\ score = PELLET_SCORE * Cardinality(PowerEaten)
  /\ player = [NewPlayer(<<1980, 26340>>) EXCEPT !.direction = Vec(0, 1),
                                                 !.orientation = Vec(0, 1)]
  /\ ghosts = <<NewGhost(<<15325, 19865>>, GHOST_BASE_SPEED, Vec(1, 0)),
                NewGhost(<<16605, 19865>>, GHOST_BASE_SPEED, Vec(1, 0)),
                NewGhost(<<17975, 19865>>, GHOST_BASE_SPEED, Vec(1, 0)),
                NewGhost(<<19165, 19865>>, GHOST_BASE_SPEED, Vec(1, 0))>>
  /\ ticks = 0
  /\ last = [op |-> "init", arg |-> None, from |-> "none", overlap |-> FALSE, hits |-> 0]

Init == InitConstructed \/ InitLateGame \/ InitCrowded \/ InitPower

\* Maze.reset_pellets: the new value of Maze.pellets.
ResetPellets == CopyPelletSet(pellet_template)

\* Game._on_close
OnClose ==
  /\ running' = FALSE
  /\ UNCHANGED <<state, score, level, lives, pressed_keys, pellets,
                 pellet_template, player, ghosts, ticks>>

\* Mutant: a restart keeps the score of the game before.
StartNewGame_KeepScore ==
  /\ level' = 1
  /\ score' = score
  /\ lives' = INITIAL_LIVES
  /\ pellets' = ResetPellets
  /\ player' = CreatePlayer
  /\ \E dirs \in InitialDirs : ghosts' = CreateGhosts(1, dirs)
  /\ state' = "Playing"
  /\ pressed_keys' = {}
  /\ ticks' = 0
  /\ UNCHANGED <<running, pellet_template>>

\* Game.start_new_game
StartNewGame ==
  /\ level' = 1
  /\ score' = 0
  /\ lives' = INITIAL_LIVES
  /\ pellets' = ResetPellets
  /\ player' = CreatePlayer
  /\ \E dirs \in InitialDirs : ghosts' = CreateGhosts(1, dirs)
  /\ state' = "Playing"
  /\ pressed_keys' = {}
  /\ ticks' = 0
  /\ UNCHANGED <<running, pellet_template>>

\* Mutant: only Return starts a game.
IsStartKey_ReturnOnly(key) == key = "Return"

\* The keys that start a game from the menu.
IsStartKey(key) == key \in {"Return", "space"}

\* Game._on_key_press
OnKeyPress(key) ==
  /\ running
  /\ last' = [op |-> "key_press", arg |-> key, from |-> state, overlap |-> FALSE, hits |-> 0]
  /\ IF key = "Escape" THEN OnClose
     ELSE IF state = "Menu" /\ IsStartKey(key) THEN StartNewGame
     ELSE IF state = "GameOver" THEN StartNewGame
     ELSE /\ Cardinality(pressed_keys \cup {key}) <= MaxHeld
          /\ pressed_keys' = pressed_keys \cup {key}
          /\ UNCHANGED <<state, score, level, lives, running, pellets,
                         pellet_template, player, ghosts, ticks>>

\* Game._on_key_release
OnKeyRelease(key) ==
  /\ running
  /\ key \in pressed_keys
  /\ last' = [op |-> "key_release", arg |-> key, from |-> state, overlap |-> FALSE, hits |-> 0]
  /\ pressed_keys' = pressed_keys \ {key}
  /\ UNCHANGED <<state, score, level, lives, running, pellets,
                 pellet_template, player, ghosts, ticks>>

\* The player after handle_input and Player.update.
MovedPlayer(k) == PlayerUpdate(HandleInput(player, pressed_keys), k)

\* The ghosts after Ghost.update, for the picks random.choice returned.
MovedGhosts(k, picks) ==
  [i \in 1 .. Len(ghosts) |-> GhostUpdate(ghosts[i], k, picks[i])]

\* The first ghost colliding with p, or 0.
FirstCollision(p, gs) ==
  IF \E i \in 1 .. Len(gs) : Collides(p, gs[i])
  THEN CHOOSE i \in 1 .. Len(gs) :
         /\ Collides(p, gs[i])
         /\ \A j \in 1 .. i - 1 : ~Collides(p, gs[j])
  ELSE 0

\* Mutant: the collision loop goes on after a hit, a life lost per ghost.
LivesAfter_NoBreak(n, p, gs) ==
  n - Cardinality({i \in 1 .. Len(gs) : Collides(p, gs[i])})

\* Game.lives after the collision loop: the first colliding ghost costs one
\* life and ends the loop.
LivesAfter(n, p, gs) == IF FirstCollision(p, gs) # 0 THEN n - 1 ELSE n

\* Mutant: the game ends one collision late.
OutOfLives_Late(n) == n < 0

\* The test that ends the game after a life is lost.
OutOfLives(n) == n <= 0

\* Mutant: completing a level leaves the level number as it was.
NextLevel_Stay(lvl) == lvl

\* The level after a completed one.
NextLevel(lvl) == lvl + 1

\* Game.update
Update(k) ==
  \E picks \in GhostDirs :
    /\ \A i \in 1 .. NGhosts : picks[i] \in Picks(ghosts[i])
    /\ LET p == MovedPlayer(k)
           gs == MovedGhosts(k, picks)
           got == CollectPellet(pellets, PixelToTile(p.position))
       IN  /\ last' = [op |-> "frame", arg |-> k, from |-> state,
                       overlap |-> FirstCollision(p, gs) # 0,
                       hits |-> Cardinality({i \in 1 .. Len(gs) : Collides(p, gs[i])})]
           /\ score' = score + got.gain
           /\ IF RemainingPellets(got.set) = 0
              THEN /\ level' = NextLevel(level)
                   /\ pellets' = ResetPellets
                   /\ player' = CreatePlayer
                   /\ \E dirs \in InitialDirs : ghosts' = CreateGhosts(NextLevel(level), dirs)
                   /\ ticks' = ticks + 1
                   /\ UNCHANGED <<lives, state>>
              ELSE /\ pellets' = got.set
                   /\ level' = level
                   /\ IF FirstCollision(p, gs) # 0
                      THEN /\ lives' = LivesAfter(lives, p, gs)
                           /\ IF OutOfLives(LivesAfter(lives, p, gs))
                              THEN /\ state' = "GameOver"
                                   /\ player' = p
                                   /\ ghosts' = gs
                                   /\ ticks' = ticks + 1
                              ELSE /\ state' = state
                                   /\ player' = ResetPlayer(p)
                                   /\ ghosts' = ResetGhosts(gs)
                                   /\ ticks' = ticks + 1
                      ELSE /\ player' = p
                           /\ ghosts' = gs
                           /\ ticks' = ticks + 1
                           /\ UNCHANGED <<lives, state>>
    /\ UNCHANGED <<running, pressed_keys, pellet_template>>

\* Mutant: every frame runs the simulation.
Simulates_Always(st) == TRUE

\* The states whose frames run the simulation.
Simulates(st) == st = "Playing"

\* Game._frame, with dt = k / Scale seconds since the last frame.
Frame(k) ==
  /\ running
  /\ IF Simulates(state)
     THEN /\ ticks < MaxTicks
          /\ Update(k)
     ELSE /\ last' = [op |-> "frame", arg |-> k, from |-> state, overlap |-> FALSE, hits |-> 0]
          /\ UNCHANGED <<state, score, level, lives, running, pressed_keys,
                         pellets, pellet_template, player, ghosts, ticks>>

KeyPress == \E key \in Keys : OnKeyPress(key)

KeyRelease == \E key \in Keys : OnKeyRelease(key)

Tick == \E k \in DtSet : Frame(k)

Next == KeyPress \/ KeyRelease \/ Tick

Spec == Init /\ [][Next]_vars
\* ------------------------------------------------- _collides on its own
\* Offsets between the two centers, per axis, in 1/Scale pixel: zero, one
\* unit, either side of 14 pixels along an axis and along the diagonal.
CollideOffsets ==
  {-897, -896, -895, -634, -1, 0, 1, 633, 634, 895, 896, 897}

\* A player on its start tile and one ghost placed at an offset from it.
InitCollide ==
  /\ state = "Playing"
  /\ score = 0
  /\ level = 1
  /\ lives = INITIAL_LIVES
  /\ running = TRUE
  /\ pressed_keys = {}
  /\ pellet_template = [pellets |-> TemplatePellets, power_pellets |-> TemplatePower]
  /\ pellets = CopyPelletSet(pellet_template)
  /\ player = CreatePlayer
  /\ \E dx \in CollideOffsets, dy \in CollideOffsets :
       ghosts = <<NewGhost(VAdd(CreatePlayer.position, Vec(dx, dy)),
                           GHOST_BASE_SPEED, Vec(1, 0))>>
  /\ ticks = 0
  /\ last = [op |-> "init", arg |-> None, from |-> "none", overlap |-> FALSE, hits |-> 0]

\* A call of Game._collides(player, ghost); last.arg records what it returns.
CollidesCall ==
  /\ last.op = "init"
  /\ last' = [op |-> "_collides", arg |-> Collides(player, ghosts[1]),
              from |-> state, overlap |-> FALSE, hits |-> 0]
  /\ UNCHANGED <<state, score, level, lives, running, pressed_keys, pellets,
                 pellet_template, player, ghosts, ticks>>

NextCollide == CollidesCall

SpecCollide == InitCollide /\ [][NextCollide]_vars

\* ------------------------------------------- the maze's pellets on their own
\* Calls of collect_pellet and reset_pellets modelled per maze.
MaxCalls == 4

\* Tiles handed to collect_pellet: two plain pellets, a power pellet, a wall,
\* the pellet-free player start and a tile outside the grid.
ProbeTiles == {<<1, 1>>, <<2, 1>>, <<1, 3>>, <<0, 0>>, PlayerStart, <<-1, 14>>}

\* A call of Maze.collect_pellet(tile_pos); its return value is added to
\* score, as Game.update does.
CollectCall(tile_pos) ==
  /\ ticks < MaxCalls
  /\ LET got == CollectPellet(pellets, tile_pos)
     IN  /\ pellets' = got.set
         /\ score' = score + got.gain
  /\ ticks' = ticks + 1
  /\ last' = [op |-> "collect_pellet", arg |-> tile_pos, from |-> state,
              overlap |-> FALSE, hits |-> 0]
  /\ UNCHANGED <<state, level, lives, running, pressed_keys, pellet_template,
                 player, ghosts>>

\* A call of Maze.reset_pellets().
ResetCall ==
  /\ ticks < MaxCalls
  /\ pellets' = ResetPellets
  /\ ticks' = ticks + 1
  /\ last' = [op |-> "reset_pellets", arg |-> None, from |-> state,
              overlap |-> FALSE, hits |-> 0]
  /\ UNCHANGED <<state, score, level, lives, running, pressed_keys,
                 pellet_template, player, ghosts>>

Collect == \E tile_pos \in ProbeTiles : CollectCall(tile_pos)

NextMaze == Collect \/ ResetCall

SpecMaze == InitConstructed /\ [][NextMaze]_vars

\* ------------------------------------------------ Maze.__init__ on its own
\* Rows of a layout and columns of a row, at most.
MaxRows == 2

MaxCols == 2

\* The characters of a layout row: wall, pellet, player start, ghost start.
LayoutChars == {"#", ".", "P", "G"}

LayoutRows == UNION {[1 .. n -> LayoutChars] : n \in 0 .. MaxCols}

Layouts == UNION {[1 .. m -> LayoutRows] : m \in 0 .. MaxRows}

\* The positions (col, row) of ch in one line, in column order.
FindInLine(line, row, ch) ==
  SelectSeq([c \in 1 .. Len(line) |-> <<c - 1, row>>],
            LAMBDA t : line[t[1] + 1] = ch)

\* Maze._find_characters on a given layout: the rows from r on, in order.
RECURSIVE FindCharactersFrom(_, _, _)
FindCharactersFrom(layout, r, ch) ==
  IF r > Len(layout) THEN <<>>
  ELSE FindInLine(layout[r], r - 1, ch) \o FindCharactersFrom(layout, r + 1, ch)

\* Mutant: rows of any width pass the validation.
ValidateLayout_Any(layout) == TRUE

\* Maze._validate_layout: TRUE when no row's width differs from the first's.
ValidateLayout(layout) ==
  \A r \in 1 .. Len(layout) : Len(layout[r]) = Len(layout[1])

\* Maze.__init__: `raised` tells whether ValueError was raised; otherwise
\* the record holds the start tiles the maze keeps.
NewMaze(layout) ==
  IF Len(layout) = 0
  THEN [raised |-> TRUE, player_start |-> None, ghost_starts |-> <<>>]
  ELSE IF ~ValidateLayout(layout)
  THEN [raised |-> TRUE, player_start |-> None, ghost_starts |-> <<>>]
  ELSE LET players == FindCharactersFrom(layout, 1, "P")
           found == FindCharactersFrom(layout, 1, "G")
       IN  IF Len(players) = 0
           THEN [raised |-> TRUE, player_start |-> None, ghost_starts |-> <<>>]
           ELSE [raised |-> FALSE, player_start |-> players[1],
                 ghost_starts |-> IF Len(found) # 0 THEN found
                                  ELSE <<players[1]>>]

\* Before Maze(layout) is called, for a layout of the bounded set; last.arg
\* holds the layout.
InitLayout ==
  /\ state = "Menu"
  /\ score = 0
  /\ level = 1
  /\ lives = INITIAL_LIVES
  /\ running = TRUE
  /\ pressed_keys = {}
  /\ pellet_template = [pellets |-> TemplatePellets, power_pellets |-> TemplatePower]
  /\ pellets = CopyPelletSet(pellet_template)
  /\ player = CreatePlayer
  /\ ghosts = CreateGhosts(1, [i \in 1 .. NGhosts |-> Vec(1, 0)])
  /\ ticks = 0
  /\ \E layout \in Layouts :
       last = [op |-> "init", arg |-> [layout |-> layout], from |-> "none",
               overlap |-> FALSE, hits |-> 0]

\* A call Maze(layout); last.arg records the layout and what came of it.
MazeCall ==
  /\ last.op = "init"
  /\ last' = [op |-> "Maze",
              arg |-> [layout |-> last.arg.layout, maze |-> NewMaze(last.arg.layout)],
              from |-> state, overlap |-> FALSE, hits |-> 0]
  /\ UNCHANGED <<state, score, level, lives, running, pressed_keys, pellets,
                 pellet_template, player, ghosts, ticks>>

NextLayout == MazeCall

SpecLayout == InitLayout /\ [][NextLayout]_vars

\* ------------------------------------------------ wrap_position on its own
\* Calls of wrap_position modelled per position.
MaxWraps == 2

\* Coordinates handed to wrap_position, in 1/Scale pixel: far and just left
\* of the screen, its first and last points, the edge values themselves and
\* points right of the screen.
WrapXs ==
  {-2 * ScreenWidthU, -TileU - 1, -1, 0, 1, TileU \div 2, 17280,
   ScreenWidthU - TileU \div 2, ScreenWidthU - 1, ScreenWidthU,
   ScreenWidthU + 1, 2 * ScreenWidthU}

WrapYs == {-TileU, -1, 0, 18560, ScreenWidthU + 1}

\* An actor at any of the positions; nothing else matters here.
InitWrap ==
  /\ state = "Playing"
  /\ score = 0
  /\ level = 1
  /\ lives = INITIAL_LIVES
  /\ running = TRUE
  /\ pressed_keys = {}
  /\ pellet_template = [pellets |-> TemplatePellets, power_pellets |-> TemplatePower]
  /\ pellets = CopyPelletSet(pellet_template)
  /\ \E x \in WrapXs, y \in WrapYs : player = NewPlayer(Vec(x, y))
  /\ ghosts = CreateGhosts(1, [i \in 1 .. NGhosts |-> Vec(1, 0)])
  /\ ticks = 0
  /\ last = [op |-> "init", arg |-> None, from |-> "none", overlap |-> FALSE, hits |-> 0]

\* position = maze.wrap_position(position); last.arg records the argument.
WrapCall ==
  /\ ticks < MaxWraps
  /\ player' = [player EXCEPT !.position = WrapPosition(player.position)]
  /\ ticks' = ticks + 1
  /\ last' = [op |-> "wrap_position", arg |-> player.position, from |-> state,
              overlap |-> FALSE, hits |-> 0]
  /\ UNCHANGED <<state, score, level, lives, running, pressed_keys, pellets,
                 pellet_template, ghosts>>

NextWrap == WrapCall

SpecWrap == InitWrap /\ [][NextWrap]_vars

\* ------------------------------------------------ the turn step on its own
\* Tiles an actor is placed about: the player start (walls above and below),
\* the left end of row 22 (a wall to the left) and the top-left corner.
TurnTiles == {PlayerStart, <<6, 22>>, <<1, 1>>}

\* Offsets from a tile center, per axis, in 1/Scale pixel: a pixel and a
\* unit before it, on it, a unit, just under a pixel and a pixel past it.
TurnOffsets == {-Scale, -1, 0, 1, Scale - 1, Scale}

\* A player about one of the tiles, heading any way or standing, with a
\* buffered direction.
InitTurn ==
  /\ state = "Playing"
  /\ score = 0
  /\ level = 1
  /\ lives = INITIAL_LIVES
  /\ running = TRUE
  /\ pressed_keys = {}
  /\ pellet_template = [pellets |-> TemplatePellets, power_pellets |-> TemplatePower]
  /\ pellets = CopyPelletSet(pellet_template)
  /\ \E t \in TurnTiles, dx \in TurnOffsets, dy \in TurnOffsets,
        d \in DirSet \cup {Vec(0, 0)}, nd \in DirSet :
       player = [NewPlayer(VAdd(TileToPixelCenter(t), Vec(dx, dy))) EXCEPT
                   !.direction = d, !.next_direction = nd]
  /\ ghosts = CreateGhosts(1, [i \in 1 .. NGhosts |-> Vec(1, 0)])
  /\ ticks = 0
  /\ last = [op |-> "init", arg |-> None, from |-> "none", overlap |-> FALSE, hits |-> 0]

\* The turn step of Actor.update; last.arg records the actor before it.
TurnCall ==
  /\ last.op = "init"
  /\ player' = TryChangeDirection(player)
  /\ last' = [op |-> "_try_change_direction", arg |-> player, from |-> state,
              overlap |-> FALSE, hits |-> 0]
  /\ UNCHANGED <<state, score, level, lives, running, pressed_keys, pellets,
                 pellet_template, ghosts, ticks>>

\* A call of Actor._aligned_with_grid; last.arg records what it returns.
AlignedCall ==
  /\ last.op = "init"
  /\ last' = [op |-> "_aligned_with_grid", arg |-> AlignedWithGrid(player),
              from |-> state, overlap |-> FALSE, hits |-> 0]
  /\ UNCHANGED <<state, score, level, lives, running, pressed_keys, pellets,
                 pellet_template, player, ghosts, ticks>>

NextTurn == TurnCall \/ AlignedCall

SpecTurn == InitTurn /\ [][NextTurn]_vars

\* ------------------------------------------- _choose_direction on its own
\* A ghost on the center of any tile of the grid (the tiles inside wall
\* blocks, where no direction is available, included), heading any way or
\* standing.
InitChoose ==
  /\ state = "Playing"
  /\ score = 0
  /\ level = 1
  /\ lives = INITIAL_LIVES
  /\ running = TRUE
  /\ pressed_keys = {}
  /\ pellet_template = [pellets |-> TemplatePellets, power_pellets |-> TemplatePower]
  /\ pellets = CopyPelletSet(pellet_template)
  /\ player = CreatePlayer
  /\ \E t \in Tiles, d \in DirSet \cup {Vec(0, 0)} :
       ghosts = <<NewGhost(TileToPixelCenter(t), GHOST_BASE_SPEED, d)>>
  /\ ticks = 0
  /\ last = [op |-> "init", arg |-> None, from |-> "none", overlap |-> FALSE, hits |-> 0]

\* direction = _choose_direction(maze, tile_pos), random.choice returning
\* any member of its argument; last.arg records the direction before.
ChooseCall ==
  /\ last.op = "init"
  /\ LET g == ghosts[1]
         candidates == ChooseCandidates(g, PixelToTile(g.position))
     IN  \E i \in 1 .. Len(candidates) :
           ghosts' = <<[g EXCEPT !.direction = candidates[i]]>>
  /\ last' = [op |-> "_choose_direction", arg |-> ghosts[1].direction,
              from |-> state, overlap |-> FALSE, hits |-> 0]
  /\ UNCHANGED <<state, score, level, lives, running, pressed_keys, pellets,
                 pellet_template, player, ticks>>

NextChoose == ChooseCall

SpecChoose == InitChoose /\ [][NextChoose]_vars

\* ---------------------------------------------- one ghost wandering alone
\* Elapsed times of a ghost's ticks, in 1/Scale second.
GhostDtSet == {1, 19, 45, 89}

\* Ticks modelled per ghost.
MaxGhostTicks == 3

\* Every value random.choice can return for g on its tile; Ghost.update
\* draws it only when g is aligned.
AllPicks(g) ==
  LET candidates == ChooseCandidates(g, PixelToTile(g.position))
  IN  {candidates[i] : i \in 1 .. Len(candidates)}

\* A ghost as _create_entities makes it at level 1: on any ghost start tile,
\* with any direction of DIRECTIONS.  last.arg.heading is the ghost's most
\* recent non-zero direction.
InitGhost ==
  /\ state = "Playing"
  /\ score = 0
  /\ level = 1
  /\ lives = INITIAL_LIVES
  /\ running = TRUE
  /\ pressed_keys = {}
  /\ pellet_template = [pellets |-> TemplatePellets, power_pellets |-> TemplatePower]
  /\ pellets = CopyPelletSet(pellet_template)
  /\ player = CreatePlayer
  /\ \E i \in 1 .. NGhosts, d \in DirSet :
       /\ ghosts = <<NewGhost(TileToPixelCenter(GhostStarts[i]), GHOST_BASE_SPEED, d)>>
       /\ last = [op |-> "init", arg |-> [heading |-> d], from |-> "none",
                  overlap |-> FALSE, hits |-> 0]
  /\ ticks = 0

\* ghost.update(dt, maze) with dt = k / Scale; last.arg records the ghost
\* before the tick, the heading before it and the heading after it.
GhostTick(k) ==
  /\ ticks < MaxGhostTicks
  /\ \E pick \in AllPicks(ghosts[1]) :
       /\ ghosts' = <<GhostUpdate(ghosts[1], k, pick)>>
       /\ last' = [op |-> "ghost_update",
                   arg |-> [heading |-> LET chosen == IF AlignedWithGrid(ghosts[1])
                                                       THEN pick ELSE ghosts[1].direction
                                        IN  IF IsZero(chosen) THEN last.arg.heading ELSE chosen,
                            headed |-> last.arg.heading,
                            was |-> ghosts[1], k |-> k],
                   from |-> state, overlap |-> FALSE, hits |-> 0]
  /\ ticks' = ticks + 1
  /\ UNCHANGED <<state, score, level, lives, running, pressed_keys, pellets,
                 pellet_template, player>>

NextGhost == \E k \in GhostDtSet : GhostTick(k)

SpecGhost == InitGhost /\ [][NextGhost]_vars

\* ================================================================= claims
\* The actors stand on the pixel centers of their maze-declared start tiles.
AtStartTiles(p, gs) ==
  /\ p.position = TileToPixelCenter(PlayerStart)
  /\ Len(gs) = NGhosts
  /\ \A i \in 1 .. NGhosts : gs[i].position = TileToPixelCenter(GhostStarts[i])

\* The entities as _create_entities makes them at level 1.
FreshEntities(p, gs) ==
  /\ p = CreatePlayer
  /\ \E dirs \in GhostDirs : gs = CreateGhosts(1, dirs)

\* C1: a Return or space key press in Menu moves to Playing with score 0,
\* level 1, lives 3, the current pellets equal to the template, no key held
\* and every actor on its start tile; any other key but Escape pressed in
\* Menu leaves the state Menu.
C1_MenuStart ==
  [][(state = "Menu" /\ last'.op = "key_press")
       => /\ last'.arg \in {"Return", "space"}
               => /\ state' = "Playing"
                  /\ score' = 0 /\ level' = 1 /\ lives' = 3
                  /\ pellets' = pellet_template'
                  /\ pressed_keys' = {}
                  /\ AtStartTiles(player', ghosts')
          /\ last'.arg \notin {"Return", "space", "Escape"} => state' = "Menu"]_vars

\* A game started from the menu with the space key, a key having been held.
C1_Witness ==
  /\ last.op = "key_press" /\ last.arg = "space" /\ last.from = "Menu"
  /\ state = "Playing"
  /\ pressed_keys = {}

\* C2: lives is within 0..3, level >= 1, and the state is GameOver exactly
\* when lives = 0 (so no Playing tick runs with lives = 0).
C2_LivesAndState ==
  /\ lives \in 0 .. 3
  /\ level >= 1
  /\ (state = "GameOver") <=> (lives = 0)

\* A ghost collision on a Playing tick has brought lives to 0.
C2_Witness ==
  /\ last.op = "frame" /\ last.from = "Playing"
  /\ state = "GameOver"
  /\ lives = 0

C4_IdleFrames ==
  [][(last'.op = "frame" /\ state \in {"Menu", "GameOver"})
       => UNCHANGED <<state, score, lives, level, pellets, player, ghosts>>]_vars

\* Frames have run both in Menu and, after a lost game, in GameOver.
C4_Witness ==
  /\ last.op = "frame" /\ last.from = "GameOver"
  /\ state = "GameOver"
  /\ score > 0

\* C5: no actor, player or ghost, is ever at a position where
\* collides_with_wall(position, radius) is true: not on its start tile, not
\* after a tick of any dt and input, a wall stop, a life-loss reset or a
\* level-up re-creation.
C5_NoActorInWall ==
  /\ ~CollidesWithWall(player.position, player.radius * Scale)
  /\ \A i \in 1 .. Len(ghosts) :
       ~CollidesWithWall(ghosts[i].position, ghosts[i].radius * Scale)

\* A tick has stopped the player at a wall, on the center of its tile, and
\* has moved a ghost off the start row.
C5_Witness ==
  /\ last.op = "frame" /\ last.from = "Playing"
  /\ IsZero(player.direction)
  /\ player.position = TileToPixelCenter(PixelToTile(player.position))
  /\ \E i \in 1 .. Len(ghosts) :
       PixelToTile(ghosts[i].position)[2] # GhostStarts[i][2]

\* The rows whose column-0 and last-column tiles are not walls.
CorridorRows ==
  {y \in 0 .. Height - 1 : ~IsWall(<<0, y>>) /\ ~IsWall(<<Width - 1, y>>)}

\* C6 (as claimed): a ghost moving left along a corridor row, on a tick that
\* takes it past the left screen edge, ends the tick at
\* x = SCREEN_WIDTH - TILE_SIZE/2 with its direction preserved.
C6_LeftExitWraps ==
  [][\A i \in 1 .. NGhosts :
       (/\ last'.op = "frame" /\ state = "Playing"
        /\ level' = level /\ lives' = lives
        /\ PixelToTile(ghosts[i].position)[2] \in CorridorRows
        /\ ~AlignedWithGrid(ghosts[i])
        /\ ghosts[i].direction = Vec(-1, 0)
        /\ ghosts[i].position[1] - ghosts[i].speed * last'.arg < 0)
       => /\ ghosts'[i].position[1] = ScreenWidthU - TileU \div 2
          /\ ghosts'[i].direction = Vec(-1, 0)]_vars

\* The offset of the first ghost from the player, per axis.
OffsetX == ghosts[1].position[1] - player.position[1]

OffsetY == ghosts[1].position[2] - player.position[2]

\* The centers are exactly 14 pixels apart along one axis.
ExactlyFourteenApart ==
  \/ OffsetX \in {-14 * Scale, 14 * Scale} /\ OffsetY = 0
  \/ OffsetY \in {-14 * Scale, 14 * Scale} /\ OffsetX = 0

\* The centers are more than 14 pixels apart.
MoreThanFourteenApart ==
  OffsetX * OffsetX + OffsetY * OffsetY > (14 * Scale) * (14 * Scale)

\* C7 (as claimed): for a player and a ghost of radius 8, _collides returns
\* true when the centers coincide, true when they are exactly 14 apart, and
\* false when they are more than 14 apart.
C7_CollidesUpTo14 ==
  last.op = "_collides"
    => /\ (OffsetX = 0 /\ OffsetY = 0) => last.arg
       /\ ExactlyFourteenApart => last.arg
       /\ MoreThanFourteenApart => ~last.arg

\* C7 (amended): for a player and a ghost of radius 8, _collides returns
\* true when the centers coincide (and at any distance below 14), false when
\* they are exactly 14 apart, and false when they are more than 14 apart.
C7_CollidesBelow14 ==
  last.op = "_collides"
    => /\ player.radius = 8 /\ ghosts[1].radius = 8
       /\ (OffsetX = 0 /\ OffsetY = 0) => last.arg
       /\ ExactlyFourteenApart => ~last.arg
       /\ MoreThanFourteenApart => ~last.arg
       /\ (~ExactlyFourteenApart /\ ~MoreThanFourteenApart) => last.arg

\* _collides has returned false for centers exactly 14 pixels apart.
C7_Witness ==
  /\ last.op = "_collides"
  /\ OffsetX = 14 * Scale /\ OffsetY = 0
  /\ last.arg = FALSE

\* The tile holds a pellet of either kind in the PelletSet ps.
HoldsPellet(ps, tile_pos) == tile_pos \in ps.pellets \cup ps.power_pellets

\* C8: a collect_pellet call on a tile holding a plain pellet returns 10
\* (power pellet: 50), removes that tile alone and so reduces
\* remaining_pellets() by exactly 1; a call on a tile without a pellet, as
\* every later call on a collected tile is, returns 0 and changes neither
\* pellet set; remaining_pellets() is never negative.
C8_CollectOnce ==
  [][last'.op = "collect_pellet"
       => LET t == last'.arg
              returned == score' - score
          IN  /\ t \in pellets.pellets
                   => /\ returned = 10
                      /\ pellets'.pellets = pellets.pellets \ {t}
                      /\ pellets'.power_pellets = pellets.power_pellets
                      /\ RemainingPellets(pellets') = RemainingPellets(pellets) - 1
              /\ t \in pellets.power_pellets
                   => /\ returned = 50
                      /\ pellets'.power_pellets = pellets.power_pellets \ {t}
                      /\ pellets'.pellets = pellets.pellets
                      /\ RemainingPellets(pellets') = RemainingPellets(pellets) - 1
              /\ ~HoldsPellet(pellets, t) => (returned = 0 /\ pellets' = pellets)
              /\ (last.op = "collect_pellet" /\ last.arg = t)
                   => (returned = 0 /\ pellets' = pellets)
              /\ ~HoldsPellet(pellets', t)
              /\ RemainingPellets(pellets') >= 0]_vars

\* Two calls on the same plain-pellet tile: the first scored 10, the second
\* scored nothing and one pellet in all is gone.
C8_Witness ==
  /\ last.op = "collect_pellet" /\ last.arg = <<1, 1>>
  /\ ticks = 2
  /\ score = 10
  /\ RemainingPellets(pellets) = RemainingPellets(pellet_template) - 1

\* The number of pellets of either kind the layout declares.
TemplateCount == Cardinality(TemplatePellets) + Cardinality(TemplatePower)

\* A step that calls reset_pellets: a level-up tick or the start of a game.
ResetsPellets ==
  \/ last'.op = "frame" /\ level' # level
  \/ last'.op = "key_press" /\ state # "Playing" /\ state' = "Playing"

\* C9: whatever pellets are collected, levels completed and games started,
\* the current plain and power pellet sets are subsets of the template's,
\* the template keeps the sets the layout declares, and a step that resets
\* the pellets leaves the current sets equal to the template, with
\* remaining_pellets() at the template's count.
C9_PelletsWithinTemplate ==
  /\ [](/\ pellets.pellets \subseteq pellet_template.pellets
        /\ pellets.power_pellets \subseteq pellet_template.power_pellets
        /\ pellet_template.pellets = TemplatePellets
        /\ pellet_template.power_pellets = TemplatePower)
  /\ [][ResetsPellets
          => /\ pellets' = pellet_template'
             /\ RemainingPellets(pellets') = TemplateCount]_vars

\* Every pellet was collected and the level-up has restored them all.
C9_Witness ==
  /\ last.op = "frame"
  /\ score = TotalScore
  /\ pellets = pellet_template
  /\ RemainingPellets(pellets) = TemplateCount

\* C10: on a Playing tick after which zero pellets remain, level increases
\* by exactly 1, the pellet sets are restored to the template, the player
\* and all ghosts are re-created on their start tiles, the score has gained
\* the value of the last pellet, and lives and state are unchanged, a ghost
\* overlapping the moved player or not.
C10_LevelUp ==
  [][LET got == CollectPellet(pellets, PixelToTile(MovedPlayer(last'.arg).position))
     IN  (/\ last'.op = "frame" /\ state = "Playing"
          /\ RemainingPellets(got.set) = 0)
         => /\ level' = level + 1
            /\ pellets'.pellets = TemplatePellets
            /\ pellets'.power_pellets = TemplatePower
            /\ player' = CreatePlayer
            /\ AtStartTiles(player', ghosts')
            /\ \A i \in 1 .. NGhosts : ghosts'[i].next_direction = None
            /\ got.gain \in {10, 50}
            /\ score' = score + got.gain
            /\ lives' = lives
            /\ state' = "Playing"]_vars

\* A level-up tick on which a ghost overlapped the player as it ate the
\* last pellet: the single life left is kept.
C10_Witness ==
  /\ last.op = "frame" /\ last.from = "Playing"
  /\ last.overlap
  /\ level = 2
  /\ lives = 1
  /\ state = "Playing"
  /\ AtStartTiles(player, ghosts)

\* C11: on a Playing tick that reaches the collision loop with one or more
\* ghosts colliding with the player, lives decreases by exactly 1 however
\* many ghosts collide; if lives stays above 0, the player and every ghost
\* are put on the pixel centers of their start tiles, the player's buffered
\* direction is cleared, and score, level and the pellet sets are as the
\* tick's pellet collection left them.
C11_OneLifePerTick ==
  [][LET got == CollectPellet(pellets, PixelToTile(MovedPlayer(last'.arg).position))
     IN  (/\ last'.op = "frame" /\ state = "Playing"
          /\ RemainingPellets(got.set) # 0
          /\ last'.hits >= 1)
         => /\ lives' = lives - 1
            /\ lives' > 0
                 => /\ AtStartTiles(player', ghosts')
                    /\ player'.next_direction = None
                    /\ state' = "Playing"
                    /\ level' = level
                    /\ score' = score + got.gain
                    /\ pellets' = got.set]_vars

\* Two ghosts collided with the player on one tick; one life of three was
\* lost and the actors are back on their start tiles.
C11_Witness ==
  /\ last.op = "frame" /\ last.from = "Playing"
  /\ last.hits >= 2
  /\ lives = 2
  /\ state = "Playing"
  /\ AtStartTiles(player, ghosts)

\* The cells of a layout that hold ch, as (col, row).
CellsWith(layout, ch) ==
  {t \in {<<c - 1, r - 1>> : c \in 1 .. MaxCols + 1, r \in 1 .. Len(layout)} :
     t[1] + 1 <= Len(layout[t[2] + 1]) /\ layout[t[2] + 1][t[1] + 1] = ch}

\* The layout is empty, or a row's length differs from the first row's.
Misshapen(layout) ==
  IF layout = <<>> THEN TRUE
  ELSE \E r \in 1 .. Len(layout) : Len(layout[r]) # Len(layout[1])

\* seq lists the tiles of S once each, rows first and columns within a row.
InRowMajorOrder(seq, S) ==
  /\ {seq[i] : i \in 1 .. Len(seq)} = S
  /\ Len(seq) = Cardinality(S)
  /\ \A i \in 1 .. Len(seq) - 1 :
       \/ seq[i][2] < seq[i + 1][2]
       \/ seq[i][2] = seq[i + 1][2] /\ seq[i][1] < seq[i + 1][1]

\* C12: Maze construction raises, producing no Maze, if the row list is
\* empty, if a row's length differs from the first row's, or if there is no
\* 'P'; for every other layout it succeeds, and ghost_starts is non-empty:
\* the 'G' tiles in row-major order, or the player start alone when there is
\* no 'G'.
C12_LayoutErrors ==
  last.op = "Maze"
    => LET layout == last.arg.layout
           maze == last.arg.maze
       IN  IF Misshapen(layout) \/ CellsWith(layout, "P") = {}
           THEN maze.raised
           ELSE /\ ~maze.raised
                /\ Len(maze.ghost_starts) > 0
                /\ maze.player_start \in CellsWith(layout, "P")
                /\ IF CellsWith(layout, "G") # {}
                   THEN InRowMajorOrder(maze.ghost_starts, CellsWith(layout, "G"))
                   ELSE maze.ghost_starts = <<maze.player_start>>

\* A two-row layout was accepted, its two 'G' tiles listed row by row.
C12_Witness ==
  /\ last.op = "Maze"
  /\ last.arg.layout = <<(<<"P", "G">>), (<<"G", "#">>)>>
  /\ ~last.arg.maze.raised
  /\ last.arg.maze.ghost_starts = <<(<<1, 0>>), (<<0, 1>>)>>

\* C13 (as claimed): a layout is accepted only if it holds exactly one 'P';
\* with two or more, as with none, construction fails.
C13_ExactlyOnePlayerStart ==
  last.op = "Maze"
    => (~last.arg.maze.raised
          => Cardinality(CellsWith(last.arg.layout, "P")) = 1)

\* C14: wrap_position leaves y unchanged, maps every x in [0, SCREEN_WIDTH)
\* to itself, every x < 0 to SCREEN_WIDTH - TILE_SIZE/2 and every
\* x >= SCREEN_WIDTH to TILE_SIZE/2, and is idempotent: wrapping a wrapped
\* position changes nothing.
C14_WrapPosition ==
  [][last'.op = "wrap_position"
       => LET p == player.position
              q == player'.position
          IN  /\ q[2] = p[2]
              /\ (0 <= p[1] /\ p[1] < SCREEN_WIDTH * Scale) => q[1] = p[1]
              /\ p[1] < 0 => 2 * q[1] = (2 * SCREEN_WIDTH - TILE_SIZE) * Scale
              /\ p[1] >= SCREEN_WIDTH * Scale => 2 * q[1] = TILE_SIZE * Scale
              /\ last.op = "wrap_position" => q = p]_vars

\* A position left of the screen has been wrapped to the right edge
\* constant, its y kept.
C14_Witness ==
  /\ last.op = "wrap_position"
  /\ last.arg[1] < 0
  /\ player.position = <<ScreenWidthU - TileU \div 2, last.arg[2]>>

\* The tile one step from the actor's tile in direction d.
TileAhead(a, d) ==
  <<a.position[1] \div (TILE_SIZE * Scale) + d[1],
    a.position[2] \div (TILE_SIZE * Scale) + d[2]>>

\* C15: in the turn step, a buffered direction that differs from the
\* current one replaces it, the buffer being cleared, if and only if the
\* actor is grid-aligned (as _aligned_with_grid tells) and the tile one step
\* from its tile in the buffered direction is not a wall; otherwise
\* direction and buffer are left as they were; a buffered direction equal
\* to the current one is cleared, aligned or not.  The position is not
\* touched.
C15_TurnStep ==
  [][last'.op = "_try_change_direction"
       => LET a == player
              b == player'
          IN  /\ b.position = a.position
              /\ a.next_direction = a.direction
                   => (b.direction = a.direction /\ b.next_direction = None)
              /\ a.next_direction # a.direction
                   => IF AlignedWithGrid(a) /\ ~IsWall(TileAhead(a, a.next_direction))
                      THEN b.direction = a.next_direction /\ b.next_direction = None
                      ELSE b.direction = a.direction
                           /\ b.next_direction = a.next_direction]_vars

\* An aligned actor has turned from heading left to the open tile above the
\* left end of row 22, and its buffer is cleared.
C15_Witness ==
  /\ last.op = "_try_change_direction"
  /\ last.arg.position = TileToPixelCenter(<<6, 22>>)
  /\ last.arg.direction = Vec(-1, 0)
  /\ last.arg.next_direction = Vec(0, -1)
  /\ player.direction = Vec(0, -1)
  /\ player.next_direction = None

\* The distance of a coordinate from the nearest tile center.
FromNearestCenter(x) ==
  LET off == (x - (TILE_SIZE * Scale) \div 2) % (TILE_SIZE * Scale)
  IN  IF off <= TILE_SIZE * Scale - off THEN off ELSE TILE_SIZE * Scale - off

\* C16 (as claimed): an actor is grid-aligned exactly when its position is
\* less than 1 pixel from the nearest tile center on both axes, on either
\* side of the center.
C16_AlignedEitherSide ==
  last.op = "_aligned_with_grid"
    => (last.arg <=> /\ FromNearestCenter(player.position[1]) < Scale
                     /\ FromNearestCenter(player.position[2]) < Scale)

\* The move step as claimed, from actor a (after its turn step or direction
\* draw) over k/Scale seconds to actor b, a having been at position `before`.
MoveStepAsClaimed(a, k, before, b) ==
  LET candidate == <<a.position[1] + a.direction[1] * a.speed * k,
                     a.position[2] + a.direction[2] * a.speed * k>>
  IN  /\ b.next_direction = a.next_direction
      /\ IF CollidesWithWall(candidate, a.radius * Scale)
         THEN /\ b.position = TileToPixelCenter(PixelToTile(before))
              /\ b.direction = Vec(0, 0)
         ELSE /\ b.position = candidate
              /\ b.direction = a.direction

\* C17: in a tick whose candidate position (position + direction * speed *
\* dt) collides with a wall, the actor ends on the pixel center of the tile
\* holding its pre-move position with direction zero and its buffer as it
\* was; in a tick whose candidate does not collide, the candidate is
\* accepted and the direction is not changed by the move.  (Ticks that end
\* in reset_positions or a level-up replace the actors and are left out.)
C17_MoveStep ==
  [][(/\ last'.op = "frame" /\ state = "Playing"
      /\ level' = level
      /\ (lives' = lives \/ state' = "GameOver"))
       => LET k == last'.arg
              held == HandleInput(player, pressed_keys)
              turned == IF held.next_direction # None
                        THEN TryChangeDirection(held) ELSE held
          IN  /\ MoveStepAsClaimed(turned, k, player.position, player')
              /\ \A i \in 1 .. NGhosts :
                   \E d \in Picks(ghosts[i]) :
                     MoveStepAsClaimed([ghosts[i] EXCEPT !.direction = d], k,
                                       ghosts[i].position, ghosts'[i])]_vars

\* A ghost that ran left along row 14, off the tile centers, was stopped by
\* the wall test and stands on the center of tile (6,14).
C17_Witness ==
  /\ last.op = "frame" /\ last.from = "Playing"
  /\ ticks = 2
  /\ ghosts[1].position = TileToPixelCenter(<<6, 14>>)
  /\ IsZero(ghosts[1].direction)

\* The directions from tile t to an in-bounds neighbor that is not a wall.
OpenWays(t) ==
  {d \in {<<1, 0>>, <<-1, 0>>, <<0, 1>>, <<0, -1>>} :
     /\ t[1] + d[1] \in 0 .. GRID_WIDTH - 1
     /\ t[2] + d[2] \in 0 .. Len(MAZE_LAYOUT) - 1
     /\ MAZE_LAYOUT[t[2] + d[2] + 1][t[1] + d[1] + 1] # "#"}

\* C18: a ghost re-choosing its direction takes an available direction
\* other than the exact opposite of its current one whenever there is one;
\* it takes the opposite only when that is the sole available direction;
\* with no direction available it takes the reverse of its current
\* direction.  Whenever a direction is available, the chosen one leads to
\* an in-bounds neighbor tile that is not a wall.
C18_ChooseDirection ==
  [][last'.op = "_choose_direction"
       => LET t == <<ghosts[1].position[1] \div (TILE_SIZE * Scale),
                     ghosts[1].position[2] \div (TILE_SIZE * Scale)>>
              current == ghosts[1].direction
              reverse == <<-current[1], -current[2]>>
              chosen == ghosts'[1].direction
          IN  /\ OpenWays(t) \ {reverse} # {} => chosen \in OpenWays(t) \ {reverse}
              /\ (OpenWays(t) # {} /\ chosen = reverse) => OpenWays(t) = {reverse}
              /\ OpenWays(t) = {} => chosen = reverse
              /\ OpenWays(t) # {} => chosen \in OpenWays(t)]_vars

\* A ghost that ran right into the dead end of row 22 has chosen the
\* reverse, the only direction available there.
C18_Witness ==
  /\ last.op = "_choose_direction"
  /\ last.arg = Vec(1, 0)
  /\ ghosts[1].position = TileToPixelCenter(<<20, 22>>)
  /\ ghosts[1].direction = Vec(-1, 0)

\* C19 (as claimed): a ghost never comes to head opposite to its most recent
\* non-zero heading, except at a tile where the reverse is the only
\* available direction.
C19_NeverReverses ==
  last.op = "ghost_update"
    => LET headed == last.arg.headed
           now == ghosts[1].direction
           t == <<last.arg.was.position[1] \div (TILE_SIZE * Scale),
                  last.arg.was.position[2] \div (TILE_SIZE * Scale)>>
       IN  (~IsZero(now) /\ now = <<-headed[1], -headed[2]>>)
             => OpenWays(t) = {now}

\* C20 (as claimed): a tick that starts with the ghost not grid-aligned
\* ends with the ghost's direction as it was.
C20_HoldsHeading ==
  (last.op = "ghost_update" /\ ~AlignedWithGrid(last.arg.was))
    => ghosts[1].direction = last.arg.was.direction

\* C20 (amended): a tick that starts with the ghost not grid-aligned draws
\* no new direction: it ends with the direction as it was when the
\* candidate position is free of walls, and with direction zero, the ghost
\* on its tile's center, when the wall test stops it.
C20_HoldsHeadingOrStops ==
  (last.op = "ghost_update" /\ ~AlignedWithGrid(last.arg.was))
    => LET was == last.arg.was
           candidate == <<was.position[1] + was.direction[1] * was.speed * last.arg.k,
                          was.position[2] + was.direction[2] * was.speed * last.arg.k>>
       IN  IF CollidesWithWall(candidate, was.radius * Scale)
           THEN /\ IsZero(ghosts[1].direction)
                /\ ghosts[1].position = TileToPixelCenter(PixelToTile(was.position))
           ELSE /\ ghosts[1].direction = was.direction
                /\ ghosts[1].position = candidate

\* A ghost that began a tick off the tile centers has moved on with the
\* heading it had.
C20_Witness ==
  /\ last.op = "ghost_update"
  /\ ~AlignedWithGrid(last.arg.was)
  /\ ~IsZero(last.arg.was.direction)
  /\ ghosts[1].direction = last.arg.was.direction
  /\ ghosts[1].position # last.arg.was.position

\* C21: in every reachable state every ghost's speed is 90 + 10 * (level - 1),
\* the player's speed is 120, and there are as many ghosts as the maze has
\* ghost start tiles.
C21_SpeedsAndCount ==
  /\ Len(ghosts) = Cardinality({t \in Tiles : Cell(t) = "G"})
  /\ \A i \in 1 .. Len(ghosts) : ghosts[i].speed = 90 + 10 * (level - 1)
  /\ player.speed = 120

\* A level-up has re-created the ghosts with the speed of level 2.
C21_Witness ==
  /\ last.op = "frame"
  /\ level = 2
  /\ \A i \in 1 .. Len(ghosts) : ghosts[i].speed = 100

\* An actor whose direction is zero stands on the pixel center of a tile
\* that is not a wall.
StoppedOnCenter(a) ==
  IsZero(a.direction)
    => /\ a.position = TileToPixelCenter(PixelToTile(a.position))
       /\ ~IsWall(PixelToTile(a.position))

\* A tick that is played through: no level-up and no reset_positions.
PlainTick ==
  /\ last'.op = "frame" /\ state = "Playing"
  /\ level' = level
  /\ (lives' = lives \/ state' = "GameOver")

\* The direction in the player's buffer when Player.update runs.
Buffered == HandleInput(player, pressed_keys).next_direction

\* The player is stopped with a buffered direction toward a tile that is
\* not a wall.
StoppedWithTurn ==
  /\ IsZero(player.direction)
  /\ Buffered # None
  /\ ~IsWall(TileAhead(player, Buffered))

\* A ghost that began the tick stopped has drawn one of its tile's
\* available directions and run the move step with it.
StoppedGhostsChoose ==
  \A i \in 1 .. Len(ghosts) :
    IsZero(ghosts[i].direction)
      => \E d \in OpenWays(PixelToTile(ghosts[i].position)) :
           MoveStepAsClaimed([ghosts[i] EXCEPT !.direction = d], last'.arg,
                             ghosts[i].position, ghosts'[i])

\* C22 (as claimed): an actor with direction zero stands on the center of a
\* non-wall tile; a stopped player with a buffered direction toward a
\* non-wall neighbor commits the turn and moves on the next tick; a stopped
\* ghost re-chooses a direction on its next tick.
C22_StoppedThenMoves ==
  /\ [](StoppedOnCenter(player) /\ \A i \in 1 .. Len(ghosts) : StoppedOnCenter(ghosts[i]))
  /\ [][PlainTick
          => /\ StoppedWithTurn
                  => /\ player'.direction = Buffered
                     /\ player'.next_direction = None
                     /\ player'.position # player.position
             /\ StoppedGhostsChoose]_vars

\* C22 (amended): an actor with direction zero stands on the center of a
\* non-wall tile; a stopped player with a buffered direction toward a
\* non-wall neighbor commits the turn, emptying the buffer, and the move
\* step runs with the new direction: it moves when the candidate position
\* is free of walls and is stopped again where it stands when it is not; a
\* stopped ghost re-chooses a direction on its next tick.
C22_StoppedThenTurns ==
  /\ [](StoppedOnCenter(player) /\ \A i \in 1 .. Len(ghosts) : StoppedOnCenter(ghosts[i]))
  /\ [][PlainTick
          => /\ StoppedWithTurn
                  => LET candidate == <<player.position[1] + Buffered[1] * player.speed * last'.arg,
                                        player.position[2] + Buffered[2] * player.speed * last'.arg>>
                     IN  /\ player'.next_direction = None
                         /\ IF CollidesWithWall(candidate, player.radius * Scale)
                            THEN /\ player'.position = player.position
                                 /\ IsZero(player'.direction)
                            ELSE /\ player'.position = candidate
                                 /\ player'.direction = Buffered
                                 /\ player'.position # player.position
             /\ StoppedGhostsChoose]_vars

\* The player that stood stopped on the center of tile (9,11), Right held,
\* has committed the turn and moved right along row 11.
C22_Witness ==
  /\ last.op = "frame" /\ last.arg = 19
  /\ ticks = 1
  /\ pellets.pellets = TemplatePellets \ CrowdedEaten
  /\ pressed_keys = {"Right"}
  /\ player.direction = Vec(1, 0)
  /\ player.next_direction = None
  /\ player.position = <<TileToPixelCenter(<<9, 11>>)[1] + 19 * 120,
                         TileToPixelCenter(<<9, 11>>)[2]>>

\* The pellets a tick removed from the current sets: on a tick that ends in
\* a level-up, everything that was left (reset_pellets then refills the
\* sets); otherwise what is in the sets before and not after.
RemovedPlain == IF level' # level THEN pellets.pellets ELSE pellets.pellets \ pellets'.pellets

RemovedPower ==
  IF level' # level THEN pellets.power_pellets
  ELSE pellets.power_pellets \ pellets'.power_pellets

\* C23: the score is always a multiple of 10.  On each Playing tick it grows
\* by exactly 10 per plain pellet and 50 per power pellet removed on that
\* tick; at most one pellet is removed, and only at the tile holding the
\* player's position after its move; nothing is added to the sets except by
\* the refill of a level-up.  Life loss and level-up add nothing further.
\* Every other step leaves the score alone, except the start of a new game,
\* which sets it to 0.
C23_ScoreByPellets ==
  /\ [](score % 10 = 0 /\ score >= 0)
  /\ [][IF last'.op = "frame" /\ state = "Playing"
        THEN /\ score' = score + 10 * Cardinality(RemovedPlain) + 50 * Cardinality(RemovedPower)
             /\ Cardinality(RemovedPlain \cup RemovedPower) <= 1
             /\ RemovedPlain \cup RemovedPower \subseteq {PixelToTile(MovedPlayer(last'.arg).position)}
             /\ level' = level => /\ pellets'.pellets \subseteq pellets.pellets
                                  /\ pellets'.power_pellets \subseteq pellets.power_pellets
             /\ score' >= score
        ELSE \/ score' = score
             \/ /\ score' = 0
                /\ last'.op = "key_press"
                /\ state \in {"Menu", "GameOver"} /\ state' = "Playing"
                /\ level' = 1 /\ lives' = 3]_vars

\* A Playing tick has taken the power pellet of tile (1,22), the tile the
\* player is on, and the score went up by 50 from that of the fourteen
\* plain pellets eaten before.
C23_Witness ==
  /\ last.op = "frame"
  /\ state = "Playing" /\ level = 1 /\ lives = 3
  /\ PixelToTile(player.position) = <<1, 22>>
  /\ TemplatePower \ pellets.power_pellets = {<<1, 22>>}
  /\ pellets.pellets = TemplatePellets \ PowerEaten
  /\ score = 10 * Cardinality(PowerEaten) + 50

\* C24 (as claimed): at the end of every Playing tick the player's
\* orientation is a non-zero unit direction, and equals the player's
\* direction whenever that direction is not zero, the ticks that lose a
\* life and reset the positions included.
C24_OrientationFollows ==
  (last.op = "frame" /\ last.from = "Playing")
    => /\ player.orientation \in DirSet
       /\ ~IsZero(player.direction) => player.orientation = player.direction

====
